---- MODULE Spec2Model ----
(***************************************************************************)
(* Rental-car inventory, regionals and user accounts: the use cases of     *)
(* src/application/use_cases over the Django repositories of               *)
(* src/infrastructure/repositories.  Strings are tuples of one-character   *)
(* tokens, tables are functions from primary key to row, and every         *)
(* repository query is one atomic step of the request that issues it.      *)
(***************************************************************************)
EXTENDS Integers, Sequences, FiniteSets, TLC

VARIABLES regionals, cars, users, nextRegionalId, nextCarId, nextUserId,
          pc, call, loc, result, calls

vars == <<regionals, cars, users, nextRegionalId, nextCarId, nextUserId,
          pc, call, loc, result, calls>>

db == <<regionals, cars, users>>

(***************************************************************************)
(* Bounds of the model.                                                    *)
(***************************************************************************)
MaxRegionalId == 2
MaxCarId == 2
MaxUserId == 2
MaxCalls == 4

Procs == {1, 2}

(***************************************************************************)
(* Strings.                                                                *)
(***************************************************************************)
Rep(c, n) == [i \in 1..n |-> c]

Whitespace == {" "}
UpperChars == {"A", "B"}
LowerChars == {"a", "b", "c"}
DigitChars == {"1"}
SpecialChars == {"!", "_", "-"}

ToLower(c) == CASE c = "A" -> "a" [] c = "B" -> "b" [] OTHER -> c

Lower(s) == [i \in 1..Len(s) |-> ToLower(s[i])]

RECURSIVE LStrip(_)
LStrip(s) == IF s # <<>> /\ Head(s) \in Whitespace THEN LStrip(Tail(s)) ELSE s

RECURSIVE RStrip(_)
RStrip(s) == IF s # <<>> /\ s[Len(s)] \in Whitespace
             THEN RStrip(SubSeq(s, 1, Len(s) - 1)) ELSE s

Strip(s) == RStrip(LStrip(s))

(***************************************************************************)
(* Outcomes of a call: a Result object returned, a value returned (the car *)
(* use cases return the entity itself), or an exception propagating out of *)
(* execute.                                                                *)
(***************************************************************************)
NoResult == [success |-> FALSE, raised |-> FALSE, exc |-> "none",
             message |-> "none", error_code |-> "none", payload |-> 0]

Result(success, message, code, payload) ==
    [success |-> success, raised |-> FALSE, exc |-> "none",
     message |-> message, error_code |-> code, payload |-> payload]

Raise(exc, message, code) ==
    [success |-> FALSE, raised |-> TRUE, exc |-> exc,
     message |-> message, error_code |-> code, payload |-> 0]

Returned(payload) == Result(TRUE, "returned", "none", payload)

(***************************************************************************)
(* Car entity (domain/entities/car.py).                                    *)
(***************************************************************************)
CAR_NAME_MIN == 3
CAR_NAME_MAX == 100
BRAND_MIN == 2
BRAND_MAX == 50
MODEL_MIN == 1
MODEL_MAX == 50
YEAR_MIN == 1900
YEAR_MAX == 2027
PLATE_NUMBER_MIN == 3
PLATE_NUMBER_MAX == 20
COLOR_MIN == 2
COLOR_MAX == 30

\* The bounds taken as exclusive.
LenOutsideExclusive(s, lo, hi) == s = <<>> \/ Len(s) <= lo \/ Len(s) >= hi

LenOutside(s, lo, hi) == s = <<>> \/ Len(s) < lo \/ Len(s) > hi

\* The validators run with the year first.
ValidateAllYearFirst(car) ==
    IF car.year < YEAR_MIN \/ car.year > YEAR_MAX THEN "INVALID_YEAR"
    ELSE IF LenOutside(car.name, CAR_NAME_MIN, CAR_NAME_MAX)
         THEN "INVALID_CAR_NAME"
    ELSE IF LenOutside(car.brand, BRAND_MIN, BRAND_MAX) THEN "INVALID_BRAND"
    ELSE IF LenOutside(car.model, MODEL_MIN, MODEL_MAX) THEN "INVALID_MODEL"
    ELSE IF LenOutside(car.plate_number, PLATE_NUMBER_MIN, PLATE_NUMBER_MAX)
         THEN "INVALID_PLATE_NUMBER"
    ELSE IF LenOutside(car.color, COLOR_MIN, COLOR_MAX) THEN "INVALID_COLOR"
    ELSE IF car.price_per_day < 0 THEN "INVALID_PRICE"
    ELSE IF car.regional_id <= 0 THEN "INVALID_REGIONAL_ID"
    ELSE "OK"

ValidateAll(car) ==
    IF LenOutside(car.name, CAR_NAME_MIN, CAR_NAME_MAX) THEN "INVALID_CAR_NAME"
    ELSE IF LenOutside(car.brand, BRAND_MIN, BRAND_MAX) THEN "INVALID_BRAND"
    ELSE IF LenOutside(car.model, MODEL_MIN, MODEL_MAX) THEN "INVALID_MODEL"
    ELSE IF car.year < YEAR_MIN \/ car.year > YEAR_MAX THEN "INVALID_YEAR"
    ELSE IF LenOutside(car.plate_number, PLATE_NUMBER_MIN, PLATE_NUMBER_MAX)
         THEN "INVALID_PLATE_NUMBER"
    ELSE IF LenOutside(car.color, COLOR_MIN, COLOR_MAX) THEN "INVALID_COLOR"
    ELSE IF car.price_per_day < 0 THEN "INVALID_PRICE"
    ELSE IF car.regional_id <= 0 THEN "INVALID_REGIONAL_ID"
    ELSE "OK"

\* An allow-list that also admits the primary key.
CarFieldsWithId == {"name", "brand", "model", "year", "plate_number", "color",
                    "price_per_day", "regional_id", "id"}

CarFields == {"name", "brand", "model", "year", "plate_number", "color",
              "price_per_day", "regional_id"}

\* Car(...): the dataclass with id = None (0) unless given.
Car(a, id) ==
    [name |-> a.name, brand |-> a.brand, model |-> a.model, year |-> a.year,
     plate_number |-> a.plate_number, color |-> a.color,
     price_per_day |-> a.price_per_day, regional_id |-> a.regional_id,
     id |-> id]

\* The keyword arguments of a call: the keys in the order the caller wrote
\* them, and the value of each.
Kwargs(order, values) == [order |-> order, values |-> values]

\* Car.update, lines 189-194: the loop assigns the fields one by one and stops
\* at the first key outside the allow-list; what it has assigned stays.
RECURSIVE CarSetAttrs(_, _, _)
CarSetAttrs(car, kwargs, i) ==
    IF i > Len(kwargs.order) THEN [car |-> car, error |-> "OK"]
    ELSE LET key == kwargs.order[i] IN
         IF key \notin CarFields THEN [car |-> car, error |-> "INVALID_FIELD"]
         ELSE CarSetAttrs([car EXCEPT ![key] = kwargs.values[key]], kwargs,
                          i + 1)

\* Car.update(**kwargs): the entity once the call has returned or raised, and
\* the code it raises.
CarUpdate(car, kwargs) == CarSetAttrs(car, kwargs, 1).car

CarUpdateError(car, kwargs) ==
    IF CarSetAttrs(car, kwargs, 1).error # "OK"
    THEN CarSetAttrs(car, kwargs, 1).error
    ELSE ValidateAll(CarUpdate(car, kwargs))

(***************************************************************************)
(* Regional entity (domain/entities/regional.py).                          *)
(***************************************************************************)
REGIONAL_NAME_MIN == 2
REGIONAL_NAME_MAX == 50

RegionalName(name) == IF name # <<>> THEN Strip(name) ELSE name

RegionalNameError(name) ==
    LET n == RegionalName(name) IN
    IF n = <<>> THEN "Regional name is required."
    ELSE IF Len(n) < REGIONAL_NAME_MIN
         THEN "Regional name must be at least 2 characters."
    ELSE IF Len(n) > REGIONAL_NAME_MAX
         THEN "Regional name must not exceed 50 characters."
    ELSE "OK"

Regional(name, id) == [name |-> RegionalName(name), id |-> id]

(***************************************************************************)
(* Storage layer: the tables behind CarModel, RegionalModel and UserModel, *)
(* their uniqueness and foreign-key constraints, and the repositories'     *)
(* read queries.  An absent entity (None) is the empty tuple.              *)
(***************************************************************************)
REGIONAL_NAME_DB_MAX == 32

Put(table, id, row) == (id :> row) @@ table

\* A delete that removes no row.
RemoveNothing(table, ids) == table

Remove(table, ids) == [i \in DOMAIN table \ ids |-> table[i]]

\* The plate_number column without its unique index.
PlateUniqueOff(id, plate) == TRUE

\* CarModel.plate_number: unique=True.
PlateUniqueOk(id, plate) ==
    \A i \in DOMAIN cars \ {id} : cars[i].plate_number # plate

\* CarModel.regional: ForeignKey to RegionalModel.
RegionalFkOk(regional_id) == regional_id \in DOMAIN regionals

\* A delete of a regional that leaves its cars behind.
CascadeCarsKept(regional_id) == cars

\* CarModel.regional: on_delete=CASCADE.
CascadeCars(regional_id) ==
    Remove(cars, {i \in DOMAIN cars : cars[i].regional_id = regional_id})

\* A block that raises and keeps its writes.
AtomicOff(raised, before, after) == after

\* with transaction.atomic(): the writes of a block that raises are undone.
Atomic(raised, before, after) == IF raised THEN before ELSE after

\* A name column without the unique constraint.
RegionalNameUniqueOff(id, name) == TRUE

\* RegionalModel.name: unique=True.
RegionalNameUniqueOk(id, name) ==
    \A i \in DOMAIN regionals \ {id} : regionals[i] # name

\* DjangoRegionalRepository.find_by_id: a storage fault is logged and answered
\* with None.
RegionalFindById(id, fault) ==
    IF ~fault /\ id \in DOMAIN regionals
    THEN <<Regional(regionals[id], id)>> ELSE <<>>

\* DjangoCarRepository._model_to_entity.
ModelToEntity(id) == Car(cars[id], id)

\* DjangoCarRepository.find_by_id.
CarFindById(id) == IF id \in DOMAIN cars THEN <<ModelToEntity(id)>> ELSE <<>>

\* DjangoCarRepository.find_by_plate_number.
CarFindByPlateNumber(plate) ==
    LET hits == {i \in DOMAIN cars : cars[i].plate_number = plate} IN
    IF hits = {} THEN <<>> ELSE <<ModelToEntity(CHOOSE i \in hits : TRUE)>>

(***************************************************************************)
(* Requests.  Each process handles one call at a time: pc is its position  *)
(* in execute, call the use case and its arguments, loc the local          *)
(* variables of execute, result the outcome once pc = "done".              *)
(***************************************************************************)
NoCall == [op |-> "idle"]
NoLoc == [empty |-> TRUE]

Goto(p, label, l) ==
    /\ pc' = [pc EXCEPT ![p] = label]
    /\ loc' = [loc EXCEPT ![p] = l]
    /\ UNCHANGED result

Finish(p, r, l) ==
    /\ pc' = [pc EXCEPT ![p] = "done"]
    /\ loc' = [loc EXCEPT ![p] = l]
    /\ result' = [result EXCEPT ![p] = r]

Begin(p, op, args) ==
    /\ pc[p] = "idle"
    /\ calls < MaxCalls
    /\ calls' = calls + 1
    /\ call' = [call EXCEPT ![p] = [op |-> op, args |-> args]]

At(p, op, label) == pc[p] = label /\ call[p].op = op

\* The caller takes the outcome; the process is free for the next request.
Return(p) ==
    /\ pc[p] = "done"
    /\ pc' = [pc EXCEPT ![p] = "idle"]
    /\ call' = [call EXCEPT ![p] = NoCall]
    /\ loc' = [loc EXCEPT ![p] = NoLoc]
    /\ result' = [result EXCEPT ![p] = NoResult]
    /\ UNCHANGED <<db, nextRegionalId, nextCarId, nextUserId, calls>>

(***************************************************************************)
(* Inputs.                                                                 *)
(***************************************************************************)
PlateA == <<"A", "B", "1">>
PlateB == <<"a", "b", "1">>

CarArgs(name, plate, regional_id) ==
    [name |-> name, brand |-> Rep("b", 2), model |-> Rep("c", 1),
     year |-> 2020, plate_number |-> plate, color |-> Rep("c", 2),
     price_per_day |-> 100, regional_id |-> regional_id]

CreateCarInputs ==
    {CarArgs(n, pl, r) : n \in {Rep("a", 3), Rep("a", 2)},
                         pl \in {PlateA, PlateB}, r \in 1..MaxRegionalId}

UpdateCarInputs ==
    {Kwargs(<<"plate_number">>, [plate_number |-> PlateA]),
     Kwargs(<<"plate_number">>, [plate_number |-> PlateB]),
     Kwargs(<<"color">>, [color |-> Rep("b", 2)]),
     Kwargs(<<"color">>, [color |-> Rep("b", 1)]),
     Kwargs(<<"color", "name">>, [color |-> Rep("b", 2), name |-> Rep("a", 2)]),
     Kwargs(<<"id">>, [id |-> 2]),
     Kwargs(<<"name", "id">>, [name |-> Rep("a", 2), id |-> 2])}
    \cup {Kwargs(<<"regional_id">>, [regional_id |-> r]) :
              r \in 1..MaxRegionalId}

RegionalNameInputs ==
    {<<"A", "a">>, <<" ", "A", "a", " ">>, <<"B", "b">>, <<"a">>, <<" ">>, <<>>,
     Rep("a", REGIONAL_NAME_DB_MAX + 1), Rep("a", REGIONAL_NAME_MAX + 1)}

(***************************************************************************)
(* CreateCarUseCase.execute over DjangoCarRepository.save.                 *)
(***************************************************************************)
RegionalNotFound == Raise("ValueError", "Regional with ID not found", "none")
PlateExists ==
    Raise("ValueError", "Car with plate number already exists", "none")
CarNotFound == Raise("ValueError", "Car with ID not found", "none")
StorageFault == Raise("DatabaseError", "storage fault", "none")
UniqueViolation == Raise("IntegrityError", "UNIQUE constraint failed", "none")
FkViolation == Raise("IntegrityError", "FOREIGN KEY constraint failed", "none")
DomainValidationError(code) == Raise("DomainValidationError", code, code)

\* Lines 51-54: the regional must exist.
CreateCarBegin(p, I) ==
    \E a \in I.create_car, fault \in I.faults :
        /\ Begin(p, "CreateCar", a)
        /\ nextCarId <= MaxCarId
        /\ IF RegionalFindById(a.regional_id, fault) = <<>>
           THEN Finish(p, RegionalNotFound, NoLoc)
           ELSE Goto(p, "cc_plate", NoLoc)
        /\ UNCHANGED <<db, nextRegionalId, nextCarId, nextUserId>>

\* The entity validated before the plate pre-check.
CreateCarCheckPlateValidateFirst(p, I) ==
    \E fault \in I.faults :
        /\ At(p, "CreateCar", "cc_plate")
        /\ LET a == call[p].args IN
           IF fault THEN Finish(p, StorageFault, NoLoc)
           ELSE IF ValidateAll(Car(a, 0)) # "OK"
           THEN Finish(p, DomainValidationError(ValidateAll(Car(a, 0))), NoLoc)
           ELSE IF CarFindByPlateNumber(a.plate_number) # <<>>
           THEN Finish(p, PlateExists, NoLoc)
           ELSE Goto(p, "cc_save_get", [car |-> Car(a, 0)])
        /\ UNCHANGED <<call, calls, db, nextRegionalId, nextCarId, nextUserId>>

\* Lines 56-71: plate pre-check, then the entity validates itself.
CreateCarCheckPlate(p, I) ==
    \E fault \in I.faults :
        /\ At(p, "CreateCar", "cc_plate")
        /\ LET a == call[p].args IN
           IF fault THEN Finish(p, StorageFault, NoLoc)
           ELSE IF CarFindByPlateNumber(a.plate_number) # <<>>
           THEN Finish(p, PlateExists, NoLoc)
           ELSE IF ValidateAll(Car(a, 0)) # "OK"
           THEN Finish(p, DomainValidationError(ValidateAll(Car(a, 0))), NoLoc)
           ELSE Goto(p, "cc_save_get", [car |-> Car(a, 0)])
        /\ UNCHANGED <<call, calls, db, nextRegionalId, nextCarId, nextUserId>>

\* save, lines 29-32: RegionalModel.objects.get.
CreateCarSaveGetRegional(p, I) ==
    \E fault \in I.faults :
        /\ At(p, "CreateCar", "cc_save_get")
        /\ IF fault THEN Finish(p, StorageFault, loc[p])
           ELSE IF loc[p].car.regional_id \notin DOMAIN regionals
           THEN Finish(p, RegionalNotFound, loc[p])
           ELSE Goto(p, "cc_save_insert", loc[p])
        /\ UNCHANGED <<call, calls, db, nextRegionalId, nextCarId, nextUserId>>

\* save, lines 34-46: the INSERT, under the table's constraints.
CreateCarSaveInsert(p, I) ==
    \E fault \in I.faults :
        /\ At(p, "CreateCar", "cc_save_insert")
        /\ LET car == loc[p].car IN
           IF fault
           THEN Finish(p, StorageFault, loc[p])
                /\ UNCHANGED <<cars, nextCarId>>
           ELSE IF ~PlateUniqueOk(0, car.plate_number)
           THEN Finish(p, UniqueViolation, loc[p])
                /\ UNCHANGED <<cars, nextCarId>>
           ELSE IF ~RegionalFkOk(car.regional_id)
           THEN Finish(p, FkViolation, loc[p])
                /\ UNCHANGED <<cars, nextCarId>>
           ELSE /\ cars' = Put(cars, nextCarId, Car(car, nextCarId))
                /\ nextCarId' = nextCarId + 1
                /\ Finish(p, Returned(nextCarId),
                          [car |-> Car(car, nextCarId)])
        /\ UNCHANGED <<call, calls, regionals, users, nextRegionalId, nextUserId>>

(***************************************************************************)
(* UpdateCarUseCase.execute over DjangoCarRepository.update.               *)
(***************************************************************************)
\* A re-check made whenever a plate number is supplied.
NeedsPlateCheckAlways(car, fields) == "plate_number" \in DOMAIN fields.values

\* Lines 45-48: a plate number is supplied and differs from the car's own.
NeedsPlateCheck(car, fields) ==
    /\ "plate_number" \in DOMAIN fields.values
    /\ fields.values.plate_number # car.plate_number

\* Lines 55-56: car.update(**update_fields), then on to the repository.
UpdateCarApply(p, car, fields) ==
    IF CarUpdateError(car, fields) # "OK"
    THEN Finish(p, DomainValidationError(CarUpdateError(car, fields)),
                [car |-> CarUpdate(car, fields)])
    ELSE Goto(p, "uc_update_get", [car |-> CarUpdate(car, fields)])

\* Lines 32-35: find the car.
UpdateCarBegin(p, I) ==
    \E id \in 1..MaxCarId, fields \in I.update_car, fault \in I.faults :
        /\ Begin(p, "UpdateCar", [car_id |-> id, fields |-> fields])
        /\ IF fault THEN Finish(p, StorageFault, NoLoc)
           ELSE IF CarFindById(id) = <<>> THEN Finish(p, CarNotFound, NoLoc)
           ELSE LET car == CarFindById(id)[1] IN
                IF "regional_id" \in DOMAIN fields.values
                THEN Goto(p, "uc_regional", [car |-> car])
                ELSE IF NeedsPlateCheck(car, fields)
                THEN Goto(p, "uc_plate", [car |-> car])
                ELSE UpdateCarApply(p, car, fields)
        /\ UNCHANGED <<db, nextRegionalId, nextCarId, nextUserId>>

\* Lines 37-42: a new regional_id must name a regional.
UpdateCarCheckRegional(p, I) ==
    \E fault \in I.faults :
        /\ At(p, "UpdateCar", "uc_regional")
        /\ LET fields == call[p].args.fields
               car == loc[p].car IN
           IF RegionalFindById(fields.values.regional_id, fault) = <<>>
           THEN Finish(p, RegionalNotFound, loc[p])
           ELSE IF NeedsPlateCheck(car, fields)
           THEN Goto(p, "uc_plate", loc[p])
           ELSE UpdateCarApply(p, car, fields)
        /\ UNCHANGED <<call, calls, db, nextRegionalId, nextCarId, nextUserId>>

\* Lines 44-53: a changed plate number must be free.
UpdateCarCheckPlate(p, I) ==
    \E fault \in I.faults :
        /\ At(p, "UpdateCar", "uc_plate")
        /\ LET fields == call[p].args.fields
               car == loc[p].car IN
           IF fault THEN Finish(p, StorageFault, loc[p])
           ELSE IF CarFindByPlateNumber(fields.values.plate_number) # <<>>
           THEN Finish(p, PlateExists, loc[p])
           ELSE UpdateCarApply(p, car, fields)
        /\ UNCHANGED <<call, calls, db, nextRegionalId, nextCarId, nextUserId>>

\* update, lines 120-123: CarModel.objects.get.
UpdateCarRepoGetCar(p, I) ==
    \E fault \in I.faults :
        /\ At(p, "UpdateCar", "uc_update_get")
        /\ IF fault THEN Finish(p, StorageFault, loc[p])
           ELSE IF loc[p].car.id \notin DOMAIN cars
           THEN Finish(p, CarNotFound, loc[p])
           ELSE Goto(p, "uc_update_regional", loc[p])
        /\ UNCHANGED <<call, calls, db, nextRegionalId, nextCarId, nextUserId>>

\* update, lines 125-129: RegionalModel.objects.get.
UpdateCarRepoGetRegional(p, I) ==
    \E fault \in I.faults :
        /\ At(p, "UpdateCar", "uc_update_regional")
        /\ IF fault THEN Finish(p, StorageFault, loc[p])
           ELSE IF loc[p].car.regional_id \notin DOMAIN regionals
           THEN Finish(p, RegionalNotFound, loc[p])
           ELSE Goto(p, "uc_update_save", loc[p])
        /\ UNCHANGED <<call, calls, db, nextRegionalId, nextCarId, nextUserId>>

\* update, lines 131-144: car_model.save() writes every column; a row that
\* has gone in the meantime is inserted again under its old key.
UpdateCarRepoSave(p, I) ==
    \E fault \in I.faults :
        /\ At(p, "UpdateCar", "uc_update_save")
        /\ LET car == loc[p].car IN
           IF fault
           THEN Finish(p, StorageFault, loc[p]) /\ UNCHANGED cars
           ELSE IF ~PlateUniqueOk(car.id, car.plate_number)
           THEN Finish(p, UniqueViolation, loc[p]) /\ UNCHANGED cars
           ELSE IF ~RegionalFkOk(car.regional_id)
           THEN Finish(p, FkViolation, loc[p]) /\ UNCHANGED cars
           ELSE /\ cars' = Put(cars, car.id, car)
                /\ Finish(p, Returned(car.id), loc[p])
        /\ UNCHANGED <<call, calls, regionals, users, nextRegionalId, nextCarId,
                       nextUserId>>

(***************************************************************************)
(* DeleteCarUseCase.execute over DjangoCarRepository.delete.               *)
(***************************************************************************)
\* Lines 21-23: find the car.
DeleteCarBegin(p, I) ==
    \E id \in 1..MaxCarId, fault \in I.faults :
        /\ Begin(p, "DeleteCar", [car_id |-> id])
        /\ IF fault THEN Finish(p, StorageFault, NoLoc)
           ELSE IF CarFindById(id) = <<>> THEN Finish(p, CarNotFound, NoLoc)
           ELSE Goto(p, "dc_get", [car |-> CarFindById(id)[1]])
        /\ UNCHANGED <<db, nextRegionalId, nextCarId, nextUserId>>

\* delete, lines 159-160: CarModel.objects.get.
DeleteCarRepoGet(p, I) ==
    \E fault \in I.faults :
        /\ At(p, "DeleteCar", "dc_get")
        /\ IF fault THEN Finish(p, StorageFault, loc[p])
           ELSE IF loc[p].car.id \notin DOMAIN cars
           THEN Finish(p, CarNotFound, loc[p])
           ELSE Goto(p, "dc_delete", loc[p])
        /\ UNCHANGED <<call, calls, db, nextRegionalId, nextCarId, nextUserId>>

\* delete, line 161: car_model.delete(); deleting a row already gone deletes
\* nothing and raises nothing.
DeleteCarRepoDelete(p, I) ==
    \E fault \in I.faults :
        /\ At(p, "DeleteCar", "dc_delete")
        /\ IF fault
           THEN Finish(p, StorageFault, loc[p]) /\ UNCHANGED cars
           ELSE /\ cars' = Remove(cars, {loc[p].car.id})
                /\ Finish(p, Returned(0), loc[p])
        /\ UNCHANGED <<call, calls, regionals, users, nextRegionalId, nextCarId,
                       nextUserId>>

(***************************************************************************)
(* GetCarsUseCase.execute.  An argument left out (None) is the empty       *)
(* tuple, one supplied is a one-element tuple.  The list the repository    *)
(* returns has no order of its own and no repeated car: it is the set of   *)
(* its entities, kept in loc.car_list.                                     *)
(***************************************************************************)
GetCarsInputs ==
    [regional_id : {<<>>} \cup {<<r>> : r \in 1..MaxRegionalId},
     start_date : {<<>>, <<0>>, <<5>>},
     end_date : {<<>>, <<0>>, <<5>>}]

FilterCombinationError ==
    Raise("ValueError", "Filter parameters (r, s, e) must be provided together",
          "none")
DateRangeError ==
    Raise("ValueError", "End date must be greater than or equal to start date",
          "none")

\* Lines 57-64: some but not all of the three filters are supplied.
FiltersPartial(f) ==
    /\ f.regional_id # <<>> \/ f.start_date # <<>> \/ f.end_date # <<>>
    /\ ~(f.regional_id # <<>> /\ f.start_date # <<>> /\ f.end_date # <<>>)

\* A range check that also refuses an empty range.
DatesReversedOrEqual(f) ==
    /\ f.start_date # <<>> /\ f.end_date # <<>>
    /\ f.end_date[1] <= f.start_date[1]

\* Line 68: end before start.
DatesReversed(f) ==
    /\ f.start_date # <<>> /\ f.end_date # <<>>
    /\ f.end_date[1] < f.start_date[1]

\* DjangoCarRepository.find_all.
CarFindAll == {ModelToEntity(i) : i \in DOMAIN cars}

\* A query that forgets its filter.
CarFindByRegionalIdUnfiltered(regional_id) == CarFindAll

\* DjangoCarRepository.find_by_regional_id.
CarFindByRegionalId(regional_id) ==
    {ModelToEntity(i) : i \in {j \in DOMAIN cars :
                                  cars[j].regional_id = regional_id}}

\* GetCarByIdUseCase.execute.
GetCarById(p, I) ==
    \E id \in 1..MaxCarId, fault \in I.faults :
        /\ Begin(p, "GetCarById", [car_id |-> id])
        /\ IF fault THEN Finish(p, StorageFault, NoLoc)
           ELSE IF CarFindById(id) = <<>> THEN Finish(p, CarNotFound, NoLoc)
           ELSE Finish(p, Returned(id), [car |-> CarFindById(id)[1]])
        /\ UNCHANGED <<db, nextRegionalId, nextCarId, nextUserId>>

GetCars(p, I) ==
    \E f \in I.get_cars, fault \in I.faults :
        /\ Begin(p, "GetCars", f)
        /\ IF FiltersPartial(f) THEN Finish(p, FilterCombinationError, NoLoc)
           ELSE IF DatesReversed(f) THEN Finish(p, DateRangeError, NoLoc)
           ELSE IF fault THEN Finish(p, StorageFault, NoLoc)
           ELSE IF f.regional_id = <<>>
           THEN Finish(p, Returned(0), [car_list |-> CarFindAll])
           ELSE Finish(p, Returned(0),
                       [car_list |-> CarFindByRegionalId(f.regional_id[1])])
        /\ UNCHANGED <<db, nextRegionalId, nextCarId, nextUserId>>

(***************************************************************************)
(* Regional use cases over DjangoRegionalRepository.                       *)
(***************************************************************************)
RegionalFailure(message, code) == Result(FALSE, message, code, 0)

InvalidRegionalId == RegionalFailure("Invalid regional ID", "INVALID_INPUT")
RegionalMissing == RegionalFailure("Regional not found", "NOT_FOUND")
RegionalDoesNotExist ==
    Raise("DoesNotExist", "RegionalModel matching query does not exist", "none")

\* A name longer than the column is refused by a storage engine that enforces
\* the column length and stored by one that does not.
ColumnRefuses(name, strict) == strict /\ Len(name) > REGIONAL_NAME_DB_MAX

\* The conflict falling through to the handler of DatabaseError.
CreateRegionalConflictAsDatabaseError ==
    RegionalFailure("Failed to create regional", "DATABASE_ERROR")

\* Lines 51-57: the handler of IntegrityError around save.
CreateRegionalConflict ==
    RegionalFailure("Regional with this name already exists", "ALREADY_EXISTS")

\* CreateRegionalUseCase.execute: the entity validates the name, then the
\* INSERT runs inside transaction.atomic().  loc.caught is the exception the
\* save raised: a connection fault, a value too long for the column, or the
\* uniqueness violation.
CreateRegional(p, I) ==
    \E name \in I.regional_names, fault \in I.faults, strict \in BOOLEAN :
        /\ Begin(p, "CreateRegional", [name |-> name])
        /\ nextRegionalId <= MaxRegionalId
        /\ LET regional == Regional(name, 0) IN
           IF RegionalNameError(name) # "OK"
           THEN /\ Finish(p, RegionalFailure(RegionalNameError(name),
                                             "INVALID_INPUT"), NoLoc)
                /\ UNCHANGED <<regionals, nextRegionalId>>
           ELSE IF fault \/ ColumnRefuses(regional.name, strict)
           THEN /\ Finish(p, RegionalFailure("Failed to create regional",
                                             "DATABASE_ERROR"),
                          [caught |-> IF fault THEN "DatabaseError"
                                      ELSE "DataError"])
                /\ UNCHANGED <<regionals, nextRegionalId>>
           ELSE IF ~RegionalNameUniqueOk(0, regional.name)
           THEN /\ Finish(p, CreateRegionalConflict,
                          [caught |-> "IntegrityError"])
                /\ UNCHANGED <<regionals, nextRegionalId>>
           ELSE /\ regionals' = Put(regionals, nextRegionalId, regional.name)
                /\ nextRegionalId' = nextRegionalId + 1
                /\ Finish(p, Result(TRUE, "Regional created successfully",
                                    "none", nextRegionalId),
                          [caught |-> "none"])
        /\ UNCHANGED <<cars, users, nextCarId, nextUserId>>

\* The new name validated before the regional is looked up.
UpdateRegionalBeginNameFirst(p, I) ==
    \E id \in 0..MaxRegionalId, name \in I.regional_names, fault \in I.faults :
        /\ Begin(p, "UpdateRegional", [regional_id |-> id, name |-> name])
        /\ IF id < 1 THEN Finish(p, InvalidRegionalId, NoLoc)
           ELSE IF RegionalNameError(name) # "OK"
           THEN Finish(p, RegionalFailure(RegionalNameError(name),
                                          "INVALID_INPUT"), NoLoc)
           ELSE IF RegionalFindById(id, fault) = <<>>
           THEN Finish(p, RegionalMissing, NoLoc)
           ELSE Goto(p, "ur_get",
                     [regional |->
                         Regional(name, RegionalFindById(id, fault)[1].id)])
        /\ UNCHANGED <<db, nextRegionalId, nextCarId, nextUserId>>

\* UpdateRegionalUseCase.execute, lines 37-63: id check, lookup, and the new
\* name validated by building a Regional.
UpdateRegionalBegin(p, I) ==
    \E id \in 0..MaxRegionalId, name \in I.regional_names, fault \in I.faults :
        /\ Begin(p, "UpdateRegional", [regional_id |-> id, name |-> name])
        /\ IF id < 1 THEN Finish(p, InvalidRegionalId, NoLoc)
           ELSE IF RegionalFindById(id, fault) = <<>>
           THEN Finish(p, RegionalMissing, NoLoc)
           ELSE IF RegionalNameError(name) # "OK"
           THEN Finish(p, RegionalFailure(RegionalNameError(name),
                                          "INVALID_INPUT"), NoLoc)
           ELSE Goto(p, "ur_get",
                     [regional |->
                         Regional(name, RegionalFindById(id, fault)[1].id)])
        /\ UNCHANGED <<db, nextRegionalId, nextCarId, nextUserId>>

\* update, line 66: RegionalModel.objects.get inside the transaction.
UpdateRegionalRepoGet(p, I) ==
    \E fault \in I.faults :
        /\ At(p, "UpdateRegional", "ur_get")
        /\ IF fault
           THEN Finish(p, RegionalFailure("Failed to update regional",
                                          "DATABASE_ERROR"), loc[p])
           ELSE IF loc[p].regional.id \notin DOMAIN regionals
           THEN Finish(p, RegionalDoesNotExist, loc[p])
           ELSE Goto(p, "ur_save", loc[p])
        /\ UNCHANGED <<call, calls, db, nextRegionalId, nextCarId, nextUserId>>

\* update, lines 67-69: regional_model.save(); IntegrityError is a
\* DatabaseError, so a duplicate name is reported as a database error.
UpdateRegionalRepoSave(p, I) ==
    \E fault \in I.faults, strict \in BOOLEAN :
        /\ At(p, "UpdateRegional", "ur_save")
        /\ LET regional == loc[p].regional IN
           IF \/ fault
              \/ ColumnRefuses(regional.name, strict)
              \/ ~RegionalNameUniqueOk(regional.id, regional.name)
           THEN /\ Finish(p, RegionalFailure("Failed to update regional",
                                             "DATABASE_ERROR"), loc[p])
                /\ UNCHANGED regionals
           ELSE /\ regionals' = Put(regionals, regional.id, regional.name)
                /\ Finish(p, Result(TRUE, "Regional updated successfully",
                                    "none", regional.id), loc[p])
        /\ UNCHANGED <<call, calls, cars, users, nextRegionalId, nextCarId,
                       nextUserId>>

\* DeleteRegionalUseCase.execute, lines 33-48: id check and lookup.
DeleteRegionalBegin(p, I) ==
    \E id \in 0..MaxRegionalId, fault \in I.faults :
        /\ Begin(p, "DeleteRegional", [regional_id |-> id])
        /\ IF id < 1 THEN Finish(p, InvalidRegionalId, NoLoc)
           ELSE IF RegionalFindById(id, fault) = <<>>
           THEN Finish(p, RegionalMissing, NoLoc)
           ELSE Goto(p, "dr_get",
                     [regional |-> RegionalFindById(id, fault)[1]])
        /\ UNCHANGED <<db, nextRegionalId, nextCarId, nextUserId>>

\* delete, line 73: RegionalModel.objects.get inside the transaction.
DeleteRegionalRepoGet(p, I) ==
    \E fault \in I.faults :
        /\ At(p, "DeleteRegional", "dr_get")
        /\ IF fault
           THEN Finish(p, RegionalFailure("Failed to delete regional",
                                          "DATABASE_ERROR"), loc[p])
           ELSE IF loc[p].regional.id \notin DOMAIN regionals
           THEN Finish(p, RegionalDoesNotExist, loc[p])
           ELSE Goto(p, "dr_delete", loc[p])
        /\ UNCHANGED <<call, calls, db, nextRegionalId, nextCarId, nextUserId>>

\* A delete that leaves the regional's own row.
RegionalDeleteRowsKept(regional_id) == regionals

\* delete, line 74: the regional's own row goes.
RegionalDeleteRows(regional_id) == Remove(regionals, {regional_id})

\* delete, line 74: regional_model.delete() removes the cars that reference
\* the regional, by the cascade, and then the regional; a fault strikes
\* between the two, inside the use case's transaction.
DeleteRegionalRepoDelete(p, I) ==
    \E fault \in I.faults :
        /\ At(p, "DeleteRegional", "dr_delete")
        /\ IF fault
           THEN /\ Finish(p, RegionalFailure("Failed to delete regional",
                                             "DATABASE_ERROR"), loc[p])
                /\ cars' = Atomic(TRUE, cars, CascadeCars(loc[p].regional.id))
                /\ UNCHANGED regionals
           ELSE /\ regionals' = RegionalDeleteRows(loc[p].regional.id)
                /\ cars' = CascadeCars(loc[p].regional.id)
                /\ Finish(p, Result(TRUE, "Regional deleted successfully",
                                    "none", 0), loc[p])
        /\ UNCHANGED <<call, calls, users, nextRegionalId, nextCarId, nextUserId>>

\* GetRegionalUseCase.execute.
GetRegional(p, I) ==
    \E id \in 0..MaxRegionalId, fault \in I.faults :
        /\ Begin(p, "GetRegional", [regional_id |-> id])
        /\ IF id < 1 THEN Finish(p, InvalidRegionalId, NoLoc)
           ELSE IF RegionalFindById(id, fault) = <<>>
           THEN Finish(p, RegionalMissing, NoLoc)
           ELSE Finish(p, Result(TRUE, "Regional retrieved successfully",
                                 "none", id),
                       [regional |-> RegionalFindById(id, fault)[1]])
        /\ UNCHANGED <<db, nextRegionalId, nextCarId, nextUserId>>

(***************************************************************************)
(* User entity (domain/entities/user.py) and the password functions.       *)
(* A password value is its characters together with what produced it: a    *)
(* plaintext typed by the caller, or the output of hash_password under one *)
(* of the encodings the pluggable hash function may use.                   *)
(***************************************************************************)
USERNAME_MIN == 3
USERNAME_MAX == 32
PASSWORD_MIN == 8
PASSWORD_MAX == 128

HashEncodings == {"mixed", "hex"}

Plain(txt) == [kind |-> "plain", txt |-> txt, enc |-> "none"]

\* application/utils/password_utils.py: hash_password and verify_password.
HashPassword(password, enc) == [kind |-> "hash", txt |-> password.txt, enc |-> enc]

VerifyPassword(password, stored) ==
    stored.kind = "hash" /\ stored.txt = password.txt

Has(txt, chars) == \E i \in 1..Len(txt) : txt[i] \in chars

\* The strength rules, applied to whatever string is in the password field.
\* A hash in a mixed alphabet with separators satisfies them, a hexadecimal
\* digest does not.
MeetsPasswordRules(password) ==
    IF password.kind = "plain"
    THEN /\ Len(password.txt) >= PASSWORD_MIN
         /\ Len(password.txt) <= PASSWORD_MAX
         /\ Has(password.txt, UpperChars)
         /\ Has(password.txt, LowerChars)
         /\ Has(password.txt, DigitChars)
         /\ Has(password.txt, SpecialChars)
    ELSE password.enc = "mixed"

UsernameChars == UpperChars \cup LowerChars \cup DigitChars \cup {"_"}

IsValidUsername(username) ==
    /\ Len(username) >= USERNAME_MIN
    /\ Len(username) <= USERNAME_MAX
    /\ \A i \in 1..Len(username) : username[i] \in UsernameChars

\* The username taken as typed.
NormalizeOff(username) == username

Normalize(username) == Lower(Strip(username))

\* User(...): __post_init__ normalizes the username, then validates.
User(username, password, id, is_hashed) ==
    [username |-> Normalize(username), password |-> password, id |-> id,
     is_hashed |-> is_hashed]

UserError(username, password, is_hashed) ==
    IF ~IsValidUsername(Normalize(username)) THEN "INVALID_USERNAME"
    ELSE IF ~is_hashed /\ ~MeetsPasswordRules(password) THEN "INVALID_PASSWORD"
    ELSE "OK"

\* find_by_username builds the entity without is_hashed, which therefore
\* takes its default.
LoadedIsHashed == FALSE

\* DjangoUserRepository.find_by_username: username__iexact; a storage fault
\* is answered with None; the entity built from the row validates itself.
UserFindByUsername(username, fault) ==
    LET hits == {i \in DOMAIN users :
                    Lower(users[i].username) = Lower(username)} IN
    IF fault \/ hits = {} THEN [error |-> "OK", user |-> <<>>]
    ELSE LET i == CHOOSE j \in hits : TRUE IN
         [error |-> UserError(users[i].username, users[i].password,
                              LoadedIsHashed),
          user |-> <<User(users[i].username, users[i].password, i,
                          LoadedIsHashed)>>]

\* The username column without its unique index.
UsernameUniqueOff(username) == TRUE

\* UserModel.username: unique=True.
UsernameUniqueOk(username) ==
    \A i \in DOMAIN users : users[i].username # username

(***************************************************************************)
(* RegisterUserUseCase.execute.                                            *)
(***************************************************************************)
RegisterFailure(message, code) == Result(FALSE, message, code, 0)

UsernameExists == RegisterFailure("Username already exists", "USERNAME_EXISTS")

\* The conflict falling through to the handler of DatabaseError.
RegisterSaveConflictUncaught ==
    RegisterFailure("Failed to register user", "DATABASE_ERROR")

\* Lines 107-113: the handler of IntegrityError around save.
RegisterSaveConflict == UsernameExists

\* The password stored as typed.
RegisterPasswordPlain(dto, enc) == dto.password

\* Lines 99-101: the password handed to the new User.
RegisterPassword(dto, enc) == HashPassword(dto.password, enc)

PwA == Plain(<<"A", "a", "1", "!", "a", "a", "a", "a">>)
PwB == Plain(<<"B", "b", "1", "_", "b", "b", "b", "b">>)
PwWeak == Plain(<<"a", "b", "c">>)
PwEmpty == Plain(<<>>)

UsernameInputs ==
    {<<"A", "b", "c">>, <<"a", "b", "c">>, <<" ", "a", "b", "c">>,
     <<"b", "_", "1">>, <<"a", "b">>, <<"a", "-", "c">>, <<>>,
     Rep("a", USERNAME_MAX), Rep("a", USERNAME_MAX + 1)}

PasswordInputs == {PwA, PwB, PwWeak, PwEmpty}

\* The request object: CreateUserDTO declares username and password only, the
\* use case also reads confirm_password.
RegisterInputs ==
    [username : UsernameInputs, password : PasswordInputs,
     confirm_password : {PwA, PwB}, has_confirm_password : BOOLEAN]

\* Lines 51-101: input checks, uniqueness pre-check, hashing, the new User.
RegisterBegin(p, I) ==
    \E dto \in I.register, fault \in I.faults, enc \in HashEncodings :
        /\ Begin(p, "Register", dto)
        /\ nextUserId <= MaxUserId
        /\ LET normalized == Normalize(dto.username)
               existing == UserFindByUsername(normalized, fault)
               hashed == RegisterPassword(dto, enc)
           IN
           IF ~dto.has_confirm_password
           THEN Finish(p, Raise("AttributeError", "confirm_password", "none"),
                       NoLoc)
           ELSE IF \/ dto.username = <<>>
                   \/ dto.password.txt = <<>>
                   \/ dto.confirm_password.txt = <<>>
           THEN Finish(p, RegisterFailure("Username and password are required",
                                          "INVALID_INPUT"), NoLoc)
           ELSE IF dto.password # dto.confirm_password
           THEN Finish(p, RegisterFailure("Passwords do not match",
                                          "PASSWORD_MISMATCH"), NoLoc)
           ELSE IF ~IsValidUsername(normalized)
           THEN Finish(p, RegisterFailure("Username must be 3-32 characters",
                                          "INVALID_USERNAME"), NoLoc)
           ELSE IF ~MeetsPasswordRules(dto.password)
           THEN Finish(p, RegisterFailure("Password must be 8-128 characters",
                                          "INVALID_PASSWORD"), NoLoc)
           ELSE IF existing.error # "OK"
           THEN Finish(p, DomainValidationError(existing.error), NoLoc)
           ELSE IF existing.user # <<>>
           THEN Finish(p, UsernameExists, NoLoc)
           ELSE IF UserError(normalized, hashed, FALSE) # "OK"
           THEN Finish(p, DomainValidationError(
                              UserError(normalized, hashed, FALSE)), NoLoc)
           ELSE Goto(p, "rg_save",
                     [user |-> User(normalized, hashed, 0, FALSE)])
        /\ UNCHANGED <<db, nextRegionalId, nextCarId, nextUserId>>

\* Lines 103-124 over DjangoUserRepository.save: the INSERT inside
\* transaction.atomic().
RegisterSave(p, I) ==
    \E fault \in I.faults :
        /\ At(p, "Register", "rg_save")
        /\ LET user == loc[p].user IN
           IF fault
           THEN /\ Finish(p, RegisterFailure("Failed to register user",
                                             "DATABASE_ERROR"), loc[p])
                /\ UNCHANGED <<users, nextUserId>>
           ELSE IF ~UsernameUniqueOk(user.username)
           THEN /\ Finish(p, RegisterSaveConflict, loc[p])
                /\ UNCHANGED <<users, nextUserId>>
           ELSE /\ users' = Put(users, nextUserId,
                                [username |-> user.username,
                                 password |-> user.password])
                /\ nextUserId' = nextUserId + 1
                /\ Finish(p, Result(TRUE, "User registered successfully",
                                    "none", nextUserId),
                          [user |-> [user EXCEPT !.id = nextUserId]])
        /\ UNCHANGED <<call, calls, regionals, cars, nextRegionalId, nextCarId>>

(***************************************************************************)
(* LoginUserUseCase.execute.                                               *)
(***************************************************************************)
LoginInputs == [username : UsernameInputs, password : PasswordInputs]

LoginFailure(code) == Result(FALSE, "Invalid credentials", code, 0)

\* A failure that tells the caller the username is not registered.
LoginUnknownUserNamed == Result(FALSE, "User not found", "USER_NOT_FOUND", 0)

\* Lines 53-58: no such user.
LoginUnknownUser == LoginFailure("INVALID_CREDENTIALS")

\* Lines 61-66: wrong password.
LoginWrongPassword == LoginFailure("INVALID_CREDENTIALS")

\* The whole of execute: its outcome and the user it loaded.  The token is
\* represented by the user id it embeds.
LoginExecute(dto, fault) ==
    LET existing == UserFindByUsername(Normalize(dto.username), fault) IN
    IF dto.username = <<>> \/ dto.password.txt = <<>>
    THEN [result |-> LoginFailure("INVALID_INPUT"), existing_user |-> <<>>]
    ELSE IF existing.error # "OK"
    THEN [result |-> DomainValidationError(existing.error),
          existing_user |-> <<>>]
    ELSE IF existing.user = <<>>
    THEN [result |-> LoginUnknownUser, existing_user |-> <<>>]
    ELSE IF ~VerifyPassword(dto.password, existing.user[1].password)
    THEN [result |-> LoginWrongPassword, existing_user |-> existing.user]
    ELSE [result |-> Result(TRUE, "User logged in successfully", "none",
                            existing.user[1].id),
          existing_user |-> existing.user]

Login(p, I) ==
    \E dto \in I.login, fault \in I.faults :
        /\ Begin(p, "Login", dto)
        /\ Finish(p, LoginExecute(dto, fault).result,
                  [existing_user |-> LoginExecute(dto, fault).existing_user])
        /\ UNCHANGED <<db, nextRegionalId, nextCarId, nextUserId>>

(***************************************************************************)
(* The Car entity on its own: a caller constructs a Car and then calls     *)
(* update on it any number of times.  pc = "entity" while the caller holds *)
(* the object in loc.car; a constructor that raises leaves no object.      *)
(***************************************************************************)
CarNameInputs ==
    {Rep("a", CAR_NAME_MIN), Rep("a", CAR_NAME_MIN - 1),
     Rep("a", CAR_NAME_MAX), Rep("a", CAR_NAME_MAX + 1)}

CarYearInputs == {YEAR_MIN, YEAR_MIN - 1, YEAR_MAX, YEAR_MAX + 1}

CarEntityInputs ==
    [name : CarNameInputs,
     brand : {Rep("b", BRAND_MIN), Rep("b", BRAND_MIN - 1)},
     model : {Rep("c", MODEL_MIN), <<>>},
     year : CarYearInputs,
     plate_number : {PlateA, Rep("A", PLATE_NUMBER_MAX + 1)},
     color : {Rep("c", COLOR_MIN), Rep("c", COLOR_MAX + 1)},
     price_per_day : {0, 100, -1},
     regional_id : {1, 0}]

CarUpdateInputs ==
    {Kwargs(<<"color">>, [color |-> Rep("b", COLOR_MIN)]),
     Kwargs(<<"name">>, [name |-> Rep("b", CAR_NAME_MIN)]),
     Kwargs(<<"year">>, [year |-> YEAR_MAX + 1]),
     Kwargs(<<"price_per_day">>, [price_per_day |-> -1]),
     Kwargs(<<"color", "name">>,
            [color |-> Rep("b", COLOR_MIN), name |-> Rep("a", 2)]),
     Kwargs(<<"regional_id", "brand">>,
            [regional_id |-> 0, brand |-> Rep("b", BRAND_MIN - 1)]),
     Kwargs(<<"id">>, [id |-> 2]),
     Kwargs(<<"name", "id">>, [name |-> Rep("a", 2), id |-> 2]),
     Kwargs(<<"id", "name">>, [name |-> Rep("a", 2), id |-> 2]),
     Kwargs(<<"created_at">>, [created_at |-> 1]),
     Kwargs(<<>>, [none |-> 0])}

\* Car(...): __post_init__ validates; the object exists only if it passes.
CarNew(p) ==
    \E a \in CarEntityInputs, id \in {0, 1} :
        /\ Begin(p, "Car", [fields |-> a, id |-> id])
        /\ IF ValidateAll(Car(a, id)) # "OK"
           THEN Finish(p, DomainValidationError(ValidateAll(Car(a, id))), NoLoc)
           ELSE /\ pc' = [pc EXCEPT ![p] = "entity"]
                /\ loc' = [loc EXCEPT ![p] = [car |-> Car(a, id)]]
                /\ result' = [result EXCEPT ![p] = Returned(0)]
        /\ UNCHANGED <<db, nextRegionalId, nextCarId, nextUserId>>

\* car.update(**kwargs) on the object held; the caller keeps the object
\* whether update returns or raises.
CarUpdateCall(p) ==
    \E kwargs \in CarUpdateInputs :
        /\ pc[p] = "entity"
        /\ calls < MaxCalls
        /\ calls' = calls + 1
        /\ call' = [call EXCEPT ![p] = [op |-> "Car.update", args |-> kwargs]]
        /\ loc' = [loc EXCEPT ![p] = [car |-> CarUpdate(loc[p].car, kwargs)]]
        /\ result' = [result EXCEPT ![p] =
               IF CarUpdateError(loc[p].car, kwargs) # "OK"
               THEN DomainValidationError(CarUpdateError(loc[p].car, kwargs))
               ELSE Returned(0)]
        /\ UNCHANGED <<pc, db, nextRegionalId, nextCarId, nextUserId>>

(***************************************************************************)
(* The inputs a specification draws from: every case for one request at a  *)
(* time, the well-formed requests that can collide for concurrent ones.    *)
(***************************************************************************)
AllInputs ==
    [create_car |-> CreateCarInputs, update_car |-> UpdateCarInputs,
     regional_names |-> RegionalNameInputs, register |-> RegisterInputs,
     login |-> LoginInputs, get_cars |-> GetCarsInputs, faults |-> BOOLEAN]

RaceInputs ==
    [create_car |-> {a \in CreateCarInputs : ValidateAll(Car(a, 0)) = "OK"},
     update_car |-> {f \in UpdateCarInputs :
                        CarUpdateError(Car(CarArgs(Rep("a", 3), PlateA, 1), 1),
                                       f) = "OK"},
     regional_names |-> {<<"A", "a">>, <<"B", "b">>},
     register |-> {d \in RegisterInputs :
                      /\ d.has_confirm_password
                      /\ d.password = PwA
                      /\ d.confirm_password = PwA
                      /\ IsValidUsername(Normalize(d.username))},
     login |-> {d \in LoginInputs :
                   /\ d.password \in {PwA, PwB}
                   /\ IsValidUsername(Normalize(d.username))},
     get_cars |-> {f \in GetCarsInputs : ~FiltersPartial(f)},
     faults |-> {FALSE}]

\* Every case for one request at a time, with the storage answering.
NoFaultInputs == [AllInputs EXCEPT !.faults = {FALSE}]

(***************************************************************************)
(* Specifications.                                                         *)
(***************************************************************************)
Init ==
    /\ regionals = <<>>
    /\ cars = <<>>
    /\ users = <<>>
    /\ nextRegionalId = 1
    /\ nextCarId = 1
    /\ nextUserId = 1
    /\ pc = [p \in Procs |-> "idle"]
    /\ call = [p \in Procs |-> NoCall]
    /\ loc = [p \in Procs |-> NoLoc]
    /\ result = [p \in Procs |-> NoResult]
    /\ calls = 0

InventoryStep(p, I) ==
    \/ CreateCarBegin(p, I)
    \/ CreateCarCheckPlate(p, I)
    \/ CreateCarSaveGetRegional(p, I)
    \/ CreateCarSaveInsert(p, I)
    \/ UpdateCarBegin(p, I)
    \/ UpdateCarCheckRegional(p, I)
    \/ UpdateCarCheckPlate(p, I)
    \/ UpdateCarRepoGetCar(p, I)
    \/ UpdateCarRepoGetRegional(p, I)
    \/ UpdateCarRepoSave(p, I)
    \/ DeleteCarBegin(p, I)
    \/ DeleteCarRepoGet(p, I)
    \/ DeleteCarRepoDelete(p, I)
    \/ CreateRegional(p, I)
    \/ UpdateRegionalBegin(p, I)
    \/ UpdateRegionalRepoGet(p, I)
    \/ UpdateRegionalRepoSave(p, I)
    \/ DeleteRegionalBegin(p, I)
    \/ DeleteRegionalRepoGet(p, I)
    \/ DeleteRegionalRepoDelete(p, I)

QueryStep(p, I) == GetCars(p, I) \/ GetCarById(p, I) \/ GetRegional(p, I)

AuthStep(p, I) ==
    \/ RegisterBegin(p, I)
    \/ RegisterSave(p, I)
    \/ Login(p, I)

\* Concurrent requests against the inventory.
NextInventory == \E p \in Procs : InventoryStep(p, RaceInputs) \/ Return(p)

SpecInventory == Init /\ [][NextInventory]_vars

\* Concurrent requests against the accounts.
NextAuth == \E p \in Procs : AuthStep(p, RaceInputs) \/ Return(p)

SpecAuth == Init /\ [][NextAuth]_vars

\* One caller of the Car entity.
NextCar == CarNew(1) \/ CarUpdateCall(1) \/ Return(1)

SpecCar == Init /\ [][NextCar]_vars

\* One request at a time against the inventory, the storage answering.
NextSequential ==
    \/ InventoryStep(1, NoFaultInputs)
    \/ QueryStep(1, NoFaultInputs)
    \/ Return(1)

SpecSequential == Init /\ [][NextSequential]_vars

\* One request at a time, over the whole system.
Next ==
    \/ InventoryStep(1, AllInputs)
    \/ QueryStep(1, AllInputs)
    \/ AuthStep(1, AllInputs)
    \/ Return(1)

Spec == Init /\ [][Next]_vars

(***************************************************************************)
(* The transport layer's reading of CreateCar's outcome (api/cars.py,      *)
(* create_car): an exception it does not catch is a server error.          *)
(***************************************************************************)
CreateCarStatus(r) ==
    IF ~r.raised THEN 201
    ELSE IF r.exc = "DomainValidationError" THEN 400
    ELSE IF r.exc = "ValueError"
    THEN IF r.message = "Car with plate number already exists" THEN 409
         ELSE 400
    ELSE 500

Done(p, op) == pc[p] = "done" /\ call[p].op = op

(***************************************************************************)
(* Properties.                                                             *)
(***************************************************************************)

\* C1: every stored car's regional_id is the id of a stored regional, in every
\* state reachable by interleaved car and regional calls.
C1_ReferentialIntegrity ==
    \A c \in DOMAIN cars : cars[c].regional_id \in DOMAIN regionals

\* A car write was refused because its regional had been deleted meanwhile.
C1_Witness ==
    \E p \in Procs :
        /\ pc[p] = "done"
        /\ call[p].op \in {"CreateCar", "UpdateCar"}
        /\ result[p] \in {FkViolation, RegionalNotFound}
        /\ "car" \in DOMAIN loc[p]
        /\ loc[p].car.regional_id \notin DOMAIN regionals
        /\ nextRegionalId > loc[p].car.regional_id

\* C2: no two stored cars have the same plate_number (exact match).
C2_PlateUnique ==
    \A i, j \in DOMAIN cars :
        i # j => cars[i].plate_number # cars[j].plate_number

\* Two cars are stored and a write of a duplicate plate was turned down.
C2_Witness ==
    /\ Cardinality(DOMAIN cars) = 2
    /\ \E p \in Procs :
           /\ pc[p] = "done"
           /\ call[p].op \in {"CreateCar", "UpdateCar"}
           /\ result[p] \in {PlateExists, UniqueViolation}

\* Both calls passed the plate pre-check for the same plate; p won the race.
RacedCreateCar(p, q) ==
    /\ p # q
    /\ Done(p, "CreateCar") /\ Done(q, "CreateCar")
    /\ call[p].args.plate_number = call[q].args.plate_number
    /\ "car" \in DOMAIN loc[p] /\ "car" \in DOMAIN loc[q]
    /\ result[p].success
    /\ result[q] \notin {RegionalNotFound, FkViolation, StorageFault}

\* C3: of two CreateCar calls racing on one plate_number exactly one stores a
\* car, and the loser ends as a sequential duplicate does: 'already exists',
\* which the transport layer answers with 409.
C3_RaceEndsAlreadyExists ==
    \A p, q \in Procs :
        RacedCreateCar(p, q) =>
            /\ Cardinality({i \in DOMAIN cars :
                   cars[i].plate_number = call[p].args.plate_number}) = 1
            /\ result[q] = PlateExists
            /\ CreateCarStatus(result[q]) = CreateCarStatus(PlateExists)

\* Both calls passed the username pre-check for the same normalized username.
RacedRegister(p, q) ==
    /\ p # q
    /\ Done(p, "Register") /\ Done(q, "Register")
    /\ "user" \in DOMAIN loc[p] /\ "user" \in DOMAIN loc[q]
    /\ loc[p].user.username = loc[q].user.username

\* C4: of two Register calls racing on one normalized username exactly one
\* succeeds and exactly one user is stored; the other returns the failed
\* Result the pre-check returns for a duplicate, USERNAME_EXISTS.
C4_RegisterRace ==
    \A p, q \in Procs :
        RacedRegister(p, q) =>
            /\ Cardinality({i \in DOMAIN users :
                   users[i].username = loc[p].user.username}) = 1
            /\ result[p].success # result[q].success
            /\ ~result[q].success => result[q] = UsernameExists

C4_Witness ==
    \E p, q \in Procs :
        /\ RacedRegister(p, q)
        /\ call[p].args.username # call[q].args.username
        /\ result[p].success
        /\ result[q].error_code = "USERNAME_EXISTS"

HashOutputs ==
    {HashPassword(pw, e) : pw \in PasswordInputs, e \in HashEncodings}

\* C5: the password stored for a user is an output of the hash function, never
\* a plaintext; a successful Register stored the hash of the password it was
\* given, not the password.
C5_StoredPasswordIsHash ==
    /\ \A i \in DOMAIN users :
           users[i].password \in HashOutputs \ PasswordInputs
    /\ \A p \in Procs :
           Done(p, "Register") /\ result[p].success =>
               /\ users[result[p].payload].password # call[p].args.password
               /\ VerifyPassword(call[p].args.password,
                                 users[result[p].payload].password)

C5_Witness ==
    \E p \in Procs :
        /\ Done(p, "Register") /\ result[p].success
        /\ result[p].payload \in DOMAIN users
        /\ MeetsPasswordRules(call[p].args.password)

Visible(r) == <<r.success, r.message, r.error_code>>

KnownUser(username) ==
    \E i \in DOMAIN users : users[i].username = Normalize(username)

WrongPassword(dto) ==
    \E i \in DOMAIN users :
        /\ users[i].username = Normalize(dto.username)
        /\ ~VerifyPassword(dto.password, users[i].password)

\* C6: Login with an existing username and a wrong password, and Login with a
\* username that is not stored, return Results equal in success flag, message
\* and error code; for the calls made and for every pair of such inputs.
C6_NoUsernameEnumeration ==
    /\ \A p, q \in Procs :
           /\ Done(p, "Login") /\ loc[p].existing_user # <<>>
           /\ ~result[p].success
           /\ Done(q, "Login") /\ loc[q].existing_user = <<>>
           /\ result[q].error_code # "INVALID_INPUT"
           => Visible(result[p]) = Visible(result[q])
    /\ \A d1, d2 \in LoginInputs :
           /\ d1.password.txt # <<>> /\ WrongPassword(d1)
           /\ d2.password.txt # <<>> /\ d2.username # <<>>
           /\ ~KnownUser(d2.username)
           => Visible(LoginExecute(d1, FALSE).result)
                  = Visible(LoginExecute(d2, FALSE).result)

C6_Witness ==
    \E p, q \in Procs :
        /\ Done(p, "Login") /\ loc[p].existing_user # <<>>
        /\ ~result[p].success
        /\ Done(q, "Login") /\ loc[q].existing_user = <<>>
        /\ ~KnownUser(call[q].args.username)
        /\ result[q].error_code = "INVALID_CREDENTIALS"

\* C7: once Register(u, p) has succeeded, Login(u', p) with u' normalizing to
\* the same username succeeds with a token for that user, and the user loaded
\* from storage is marked hashed, so that its stored hash is not validated as
\* a plaintext password.
C7_LoginAfterRegister ==
    \A p \in Procs :
        Done(p, "Login") =>
            \A i \in DOMAIN users :
                /\ users[i].username = Normalize(call[p].args.username)
                /\ VerifyPassword(call[p].args.password, users[i].password)
                => /\ result[p].success
                   /\ result[p].payload = i
                   /\ loc[p].existing_user # <<>>
                   /\ loc[p].existing_user[1].is_hashed

DomainCatchers ==
    {"CreateCar", "UpdateCar", "CreateRegional", "UpdateRegional", "Register"}

\* C8: CreateCar, UpdateCar, CreateRegional, UpdateRegional and Register never
\* end with a DomainValidationError propagating to the caller.
C8_NoDomainErrorEscapes ==
    \A p \in Procs :
        pc[p] = "done" /\ call[p].op \in DomainCatchers =>
            result[p].exc # "DomainValidationError"

PersistSteps ==
    {"cc_save_get", "cc_save_insert", "uc_update_get", "uc_update_regional",
     "uc_update_save", "dc_get", "dc_delete", "ur_get", "ur_save", "dr_get",
     "dr_delete", "rg_save"}

\* C9: a storage fault raised by the persistence call of a create, update or
\* delete use case never propagates out of execute; the call ends with a
\* database-error Result.
C9_StorageFaultCaught ==
    [][\A p \in Procs :
           pc[p] \in PersistSteps /\ pc'[p] = "done" =>
               result'[p].exc \notin {"DatabaseError", "IntegrityError"}]_vars

\* C10: a step that changes the persisted cars, regionals or users is the
\* step that completes its call with success; a call that ends in failure,
\* returned or raised, has therefore changed nothing.
C10_AllOrNothing ==
    [][db' # db =>
           \E p \in Procs :
               /\ pc[p] # "done" /\ pc'[p] = "done"
               /\ result'[p].success]_vars

\* A delete of a regional that cars reference has failed at its write.
C10_Witness ==
    \E p \in Procs :
        /\ Done(p, "DeleteRegional")
        /\ result[p].error_code = "DATABASE_ERROR"
        /\ loc[p].regional.id \in DOMAIN regionals
        /\ \E c \in DOMAIN cars : cars[c].regional_id = loc[p].regional.id

\* The eight field constraints of a Car, in the order the spec lists them.
CarFieldOrder ==
    <<"name", "brand", "model", "year", "plate_number", "color",
      "price_per_day", "regional_id">>

CarFieldValid(car, k) ==
    CASE k = "name" -> Len(car.name) \in CAR_NAME_MIN..CAR_NAME_MAX
      [] k = "brand" -> Len(car.brand) \in BRAND_MIN..BRAND_MAX
      [] k = "model" -> Len(car.model) \in MODEL_MIN..MODEL_MAX
      [] k = "year" -> car.year \in YEAR_MIN..YEAR_MAX
      [] k = "plate_number" ->
             Len(car.plate_number) \in PLATE_NUMBER_MIN..PLATE_NUMBER_MAX
      [] k = "color" -> Len(car.color) \in COLOR_MIN..COLOR_MAX
      [] k = "price_per_day" -> car.price_per_day >= 0
      [] k = "regional_id" -> car.regional_id >= 1

CarFieldCode(k) ==
    CASE k = "name" -> "INVALID_CAR_NAME"
      [] k = "brand" -> "INVALID_BRAND"
      [] k = "model" -> "INVALID_MODEL"
      [] k = "year" -> "INVALID_YEAR"
      [] k = "plate_number" -> "INVALID_PLATE_NUMBER"
      [] k = "color" -> "INVALID_COLOR"
      [] k = "price_per_day" -> "INVALID_PRICE"
      [] k = "regional_id" -> "INVALID_REGIONAL_ID"

CarAllValid(car) ==
    \A i \in 1..Len(CarFieldOrder) : CarFieldValid(car, CarFieldOrder[i])

\* The fields before position i are valid.
CarValidBefore(car, i) ==
    \A j \in 1..(i - 1) : CarFieldValid(car, CarFieldOrder[j])

FirstInvalidCode(car) ==
    IF CarAllValid(car) THEN "OK"
    ELSE CarFieldCode(CarFieldOrder[
             CHOOSE i \in 1..Len(CarFieldOrder) :
                 ~CarFieldValid(car, CarFieldOrder[i]) /\ CarValidBefore(car, i)])

\* The code an entity call ended with.
RaisedCode(p) == IF result[p].raised THEN result[p].error_code ELSE "OK"

\* p's last call was the constructor, with these arguments.
CarBuilt(p) == call[p].op = "Car" /\ pc[p] \in {"entity", "done"}

CarGiven(p) == Car(call[p].args.fields, call[p].args.id)

\* p's last call was update on the object it holds.
CarUpdated(p) == call[p].op = "Car.update" /\ pc[p] = "entity"

KwargsKeys(kwargs) == {kwargs.order[i] : i \in 1..Len(kwargs.order)}

\* C14: the Car a caller holds satisfies all eight field constraints after
\* every update call, whether the call returned or raised; and
\* update(color, name) with a valid color and a too short name raises
\* INVALID_CAR_NAME.
C14_EntityStaysValid ==
    \A p \in Procs :
        /\ pc[p] = "entity" => CarAllValid(loc[p].car)
        /\ /\ CarUpdated(p)
           /\ call[p].args.order = <<"color", "name">>
           /\ Len(call[p].args.values.name) < CAR_NAME_MIN
           => result[p] = DomainValidationError("INVALID_CAR_NAME")

\* C15: update names a key outside {name, brand, model, year, plate_number,
\* color, price_per_day, regional_id} only to fail with INVALID_FIELD; it
\* never changes the id, nor any field that is not a named allow-listed key.
C15_UpdateAllowList ==
    [][\A p \in Procs :
           call'[p].op = "Car.update" /\ calls' = calls + 1 =>
               LET keys == KwargsKeys(call'[p].args)
                   allowed == {"name", "brand", "model", "year", "plate_number",
                               "color", "price_per_day", "regional_id"}
               IN
               /\ ~(keys \subseteq allowed) =>
                      result'[p] = DomainValidationError("INVALID_FIELD")
               /\ loc'[p].car.id = loc[p].car.id
               /\ \A k \in DOMAIN loc[p].car \ (keys \cap allowed) :
                      loc'[p].car[k] = loc[p].car[k]]_vars

\* An update naming id has been refused and the id is not the one it named.
C15_Witness ==
    \E p \in Procs :
        /\ CarUpdated(p)
        /\ "id" \in KwargsKeys(call[p].args)
        /\ result[p] = DomainValidationError("INVALID_FIELD")
        /\ loc[p].car.id # call[p].args.values.id

\* C16: constructing a Car fails with INVALID_CAR_NAME when the name length
\* is outside [3,100], with INVALID_YEAR when the year is outside
\* [1900,2027], with INVALID_PRICE when price_per_day < 0, and succeeds
\* exactly when all eight field constraints hold.
C16_ConstructionBounds ==
    \A p \in Procs :
        CarBuilt(p) =>
            /\ ~CarFieldValid(CarGiven(p), "name")
                   => RaisedCode(p) = "INVALID_CAR_NAME"
            /\ ~CarFieldValid(CarGiven(p), "year")
                   => RaisedCode(p) = "INVALID_YEAR"
            /\ ~CarFieldValid(CarGiven(p), "price_per_day")
                   => RaisedCode(p) = "INVALID_PRICE"
            /\ RaisedCode(p) = "OK" <=> CarAllValid(CarGiven(p))

\* C16, amended: each of the three codes is raised when its field is out of
\* bounds and the fields validated before it are within theirs; construction
\* succeeds exactly when all eight field constraints hold.
C16_ConstructionBoundsInOrder ==
    \A p \in Procs :
        CarBuilt(p) =>
            /\ ~CarFieldValid(CarGiven(p), "name")
                   => RaisedCode(p) = "INVALID_CAR_NAME"
            /\ ~CarFieldValid(CarGiven(p), "year") /\ CarValidBefore(CarGiven(p), 4)
                   => RaisedCode(p) = "INVALID_YEAR"
            /\ /\ ~CarFieldValid(CarGiven(p), "price_per_day")
               /\ CarValidBefore(CarGiven(p), 7)
               => RaisedCode(p) = "INVALID_PRICE"
            /\ RaisedCode(p) = "OK" <=> CarAllValid(CarGiven(p))
            /\ pc[p] = "entity" <=> CarAllValid(CarGiven(p))

\* A car one year past the last year allowed, and otherwise within bounds
\* with its name at the longest length allowed, was refused for its year.
C16_Witness ==
    \E p \in Procs :
        /\ CarBuilt(p)
        /\ call[p].args.fields.year = YEAR_MAX + 1
        /\ Len(call[p].args.fields.name) = CAR_NAME_MAX
        /\ call[p].args.fields.price_per_day < 0
        /\ result[p] = DomainValidationError("INVALID_YEAR")

\* C17: the code raised by construction, and by the re-validation at the end
\* of update, is that of the first invalid field in the order name, brand,
\* model, year, plate_number, color, price_per_day, regional_id.
C17_FailFastOrder ==
    \A p \in Procs :
        /\ CarBuilt(p) => RaisedCode(p) = FirstInvalidCode(CarGiven(p))
        /\ CarUpdated(p) /\ KwargsKeys(call[p].args) \subseteq CarFields
               => RaisedCode(p) = FirstInvalidCode(loc[p].car)

\* An update wrote an invalid regional_id and then an invalid brand, and the
\* brand was reported; a construction with several invalid fields was made.
C17_Witness ==
    \E p \in Procs :
        /\ CarUpdated(p)
        /\ call[p].args.order = <<"regional_id", "brand">>
        /\ ~CarFieldValid(loc[p].car, "regional_id")
        /\ result[p] = DomainValidationError("INVALID_BRAND")

\* A user stored before p's Register call: any stored user with the username
\* the call normalizes to, other than the one the call itself stored.
TakenBefore(p) ==
    \E i \in DOMAIN users :
        /\ users[i].username = Lower(Strip(call[p].args.username))
        /\ ~(result[p].success /\ result[p].payload = i)

\* C11: a finished Register reports the first failing check in the order
\* empty or missing field (INVALID_INPUT), password differs from confirmation
\* (PASSWORD_MISMATCH), username format (INVALID_USERNAME), password strength
\* (INVALID_PASSWORD), username taken (USERNAME_EXISTS); a mismatch never
\* gets as far as building or saving a user.
C11_RegisterCheckOrder ==
    \A p \in Procs :
        Done(p, "Register") =>
            LET dto == call[p].args
                code == result[p].error_code
            IN
            IF \/ ~dto.has_confirm_password
               \/ dto.username = <<>>
               \/ dto.password.txt = <<>>
               \/ dto.confirm_password.txt = <<>>
            THEN ~result[p].raised /\ code = "INVALID_INPUT"
            ELSE IF dto.password # dto.confirm_password
            THEN code = "PASSWORD_MISMATCH" /\ "user" \notin DOMAIN loc[p]
            ELSE IF ~IsValidUsername(Lower(Strip(dto.username)))
            THEN code = "INVALID_USERNAME"
            ELSE IF ~MeetsPasswordRules(dto.password)
            THEN code = "INVALID_PASSWORD"
            ELSE TakenBefore(p) =>
                     code \in {"USERNAME_EXISTS", "DATABASE_ERROR"}

\* No two stored users have usernames equal up to case.
NoCaseDuplicates ==
    \A i, j \in DOMAIN users :
        i # j => Lower(users[i].username) # Lower(users[j].username)

C13_StoredUsernameNormalized ==
    \A i \in DOMAIN users :
        LET u == users[i].username IN
        /\ Len(u) >= USERNAME_MIN /\ Len(u) <= USERNAME_MAX
        /\ u[1] \notin Whitespace /\ u[Len(u)] \notin Whitespace
        /\ \A k \in 1..Len(u) :
               /\ u[k] \notin UpperChars
               /\ u[k] \in LowerChars \cup DigitChars \cup {"_"}

\* Users were stored from a username typed with an uppercase letter or a
\* leading blank, and from one of the greatest length allowed.
C13_Witness ==
    /\ \E p \in Procs :
           /\ Done(p, "Register") /\ result[p].success
           /\ call[p].args.username # users[result[p].payload].username
    /\ \E i \in DOMAIN users : Len(users[i].username) = USERNAME_MAX

\* How many of the three filters a GetCars call supplied.
Supplied(f) ==
    Cardinality({k \in {"regional_id", "start_date", "end_date"} : f[k] # <<>>})

\* C18: a GetCars call supplying one or two of regional_id, start and end
\* fails with the filter-combination error; one supplying all three with
\* end < start fails; neither queries the repository; end = start is
\* accepted.
C18_GetCarsFilterValidation ==
    \A p \in Procs :
        Done(p, "GetCars") =>
            LET f == call[p].args IN
            /\ Supplied(f) \in {1, 2} =>
                   /\ result[p] = FilterCombinationError
                   /\ "car_list" \notin DOMAIN loc[p]
            /\ Supplied(f) = 3 /\ f.end_date[1] < f.start_date[1] =>
                   /\ result[p] = DateRangeError
                   /\ "car_list" \notin DOMAIN loc[p]
            /\ Supplied(f) = 3 /\ f.end_date[1] = f.start_date[1] =>
                   result[p].exc # "ValueError"

\* With a car stored, a call naming only the car's regional was refused.
C18_Witness ==
    \E p \in Procs :
        /\ Done(p, "GetCars")
        /\ call[p].args.regional_id # <<>>
        /\ call[p].args.start_date = <<>> /\ call[p].args.end_date = <<>>
        /\ \E c \in DOMAIN cars :
               cars[c].regional_id = call[p].args.regional_id[1]
        /\ result[p] = FilterCombinationError

\* C19: a GetCars call that returns a list returns, with no filter, every
\* stored car, and with a filter exactly the stored cars of that regional,
\* whatever the date range.
C19_GetCarsResults ==
    \A p \in Procs :
        Done(p, "GetCars") /\ result[p].success =>
            LET f == call[p].args IN
            /\ "car_list" \in DOMAIN loc[p]
            /\ {c.id : c \in loc[p].car_list} =
                   IF f.regional_id = <<>> THEN DOMAIN cars
                   ELSE {i \in DOMAIN cars :
                            cars[i].regional_id = f.regional_id[1]}
            /\ \A c \in loc[p].car_list :
                   \A i \in 1..Len(CarFieldOrder) :
                       c[CarFieldOrder[i]] = cars[c.id][CarFieldOrder[i]]

\* A filtered call over a non-empty date range left out the car of another
\* regional.
C19_Witness ==
    \E p \in Procs :
        /\ Done(p, "GetCars") /\ result[p].success
        /\ call[p].args.regional_id # <<>>
        /\ call[p].args.start_date[1] < call[p].args.end_date[1]
        /\ \E c \in DOMAIN cars :
               cars[c].regional_id # call[p].args.regional_id[1]
        /\ Cardinality(loc[p].car_list) < Cardinality(DOMAIN cars)

\* p begins an UpdateCar call in this step.
UpdateCarBegins(p) == pc[p] = "idle" /\ call'[p].op = "UpdateCar"

Begins(p, op) == pc[p] = "idle" /\ call'[p].op = op

\* p takes a step of a call of op.
Steps(p, op) == pc'[p] # pc[p] /\ call'[p].op = op

\* C21: DeleteCar on an absent id fails 'not found' and changes nothing; on a
\* present id it goes on to remove exactly that car, leaving every other car
\* and every regional as it was, and ends in success; GetCarById on an id
\* that is not stored fails 'not found'.
C21_DeleteCar ==
    /\ [](\A p \in Procs :
             /\ Done(p, "DeleteCar") =>
                    IF "car" \in DOMAIN loc[p]
                    THEN result[p].success
                         /\ call[p].args.car_id \notin DOMAIN cars
                    ELSE result[p] = CarNotFound
             /\ Done(p, "GetCarById")
                    /\ call[p].args.car_id \notin DOMAIN cars
                    => result[p] = CarNotFound)
    /\ [][\A p \in Procs :
              /\ Begins(p, "DeleteCar")
                     /\ call'[p].args.car_id \notin DOMAIN cars
                     => pc'[p] = "done" /\ result'[p] = CarNotFound
              /\ Begins(p, "DeleteCar") /\ call'[p].args.car_id \in DOMAIN cars
                     => pc'[p] # "done" /\ "car" \in DOMAIN loc'[p]
              /\ Steps(p, "DeleteCar") /\ ~result'[p].success => db' = db
              /\ Steps(p, "DeleteCar") /\ result'[p].success =>
                     /\ call[p].args.car_id \in DOMAIN cars
                     /\ DOMAIN cars' = DOMAIN cars \ {call[p].args.car_id}
                     /\ \A c \in DOMAIN cars' : cars'[c] = cars[c]
                     /\ regionals' = regionals /\ users' = users]_vars

\* The one car created was deleted, its regional is still stored, and a
\* GetCarById on its id answered 'not found'.
C21_Witness ==
    \E p \in Procs :
        /\ Done(p, "GetCarById") /\ result[p] = CarNotFound
        /\ call[p].args.car_id < nextCarId
        /\ nextRegionalId = 2 /\ 1 \in DOMAIN regionals

\* The name a CreateRegional or UpdateRegional call was given, trimmed.
TrimmedName(p) == Strip(call[p].args.name)

NameInBounds(name) ==
    Len(name) >= REGIONAL_NAME_MIN /\ Len(name) <= REGIONAL_NAME_MAX

\* The trimmed name is that of a regional stored before p's call.
NameTakenBefore(p) ==
    \E i \in DOMAIN regionals :
        /\ regionals[i] = TrimmedName(p)
        /\ ~(result[p].success /\ result[p].payload = i)

\* The exception p's save raised, if it got as far as the save.
Caught(p) == IF "caught" \in DOMAIN loc[p] THEN loc[p].caught ELSE "none"

\* C22: a CreateRegional whose trimmed name is that of a stored regional
\* returns the failed Result ALREADY_EXISTS, not DATABASE_ERROR, unless
\* another storage fault struck; every other storage fault returns
\* DATABASE_ERROR; a failed CreateRegional stores nothing.
C22_CreateRegionalAlreadyExists ==
    /\ [](\A p \in Procs :
             Done(p, "CreateRegional") =>
                 /\ ~result[p].raised
                 /\ /\ NameInBounds(TrimmedName(p)) /\ NameTakenBefore(p)
                    /\ Caught(p) \notin {"DatabaseError", "DataError"}
                    => /\ ~result[p].success
                       /\ result[p].error_code = "ALREADY_EXISTS"
                 /\ Caught(p) \in {"DatabaseError", "DataError"}
                    => /\ ~result[p].success
                       /\ result[p].error_code = "DATABASE_ERROR"
                 /\ result[p].error_code = "ALREADY_EXISTS"
                    => NameTakenBefore(p))
    /\ [][\A p \in Procs :
              Steps(p, "CreateRegional") /\ ~result'[p].success
                  => regionals' = regionals]_vars

\* " Aa " was refused because "Aa" is stored.
C22_Witness ==
    \E p \in Procs :
        /\ Done(p, "CreateRegional")
        /\ call[p].args.name # TrimmedName(p)
        /\ result[p].error_code = "ALREADY_EXISTS"
        /\ Cardinality(DOMAIN regionals) = 1
        /\ \E i \in DOMAIN regionals : regionals[i] = TrimmedName(p)

\* C23: CreateRegional with a name whose trimmed length is between 2 and 50
\* and which equals no stored name succeeds and stores the trimmed name; with
\* a name outside these bounds after trimming it returns INVALID_INPUT, and
\* no name outside the bounds is ever stored.
C23_CreateRegionalNameBounds ==
    /\ \A p \in Procs :
           Done(p, "CreateRegional") =>
               /\ NameInBounds(TrimmedName(p)) /\ ~NameTakenBefore(p)
                  => /\ result[p].success
                     /\ result[p].payload \in DOMAIN regionals
                     /\ regionals[result[p].payload] = TrimmedName(p)
               /\ ~NameInBounds(TrimmedName(p))
                  => ~result[p].success /\ result[p].error_code = "INVALID_INPUT"
    /\ \A i \in DOMAIN regionals : NameInBounds(regionals[i])

\* C24: UpdateRegional answers, in this order, INVALID_INPUT for an id below
\* 1, NOT_FOUND for an id with no stored regional whatever the new name, and
\* INVALID_INPUT for a new name outside 2 to 50 characters after trimming; a
\* call that fails changes nothing stored; one that succeeds changes the name
\* of that regional only and keeps its id.
C24_UpdateRegionalOrder ==
    [][\A p \in Procs :
           /\ Begins(p, "UpdateRegional") =>
                  LET id == call'[p].args.regional_id
                      name == Strip(call'[p].args.name)
                  IN
                  IF id < 1
                  THEN /\ pc'[p] = "done" /\ ~result'[p].success
                       /\ result'[p].error_code = "INVALID_INPUT"
                       /\ result'[p].message = "Invalid regional ID"
                  ELSE IF id \notin DOMAIN regionals
                  THEN /\ pc'[p] = "done" /\ ~result'[p].success
                       /\ result'[p].error_code = "NOT_FOUND"
                  ELSE IF ~NameInBounds(name)
                  THEN /\ pc'[p] = "done" /\ ~result'[p].success
                       /\ result'[p].error_code = "INVALID_INPUT"
                  ELSE pc'[p] # "done"
           /\ Steps(p, "UpdateRegional") /\ ~result'[p].success => db' = db
           /\ Steps(p, "UpdateRegional") /\ result'[p].success =>
                  LET id == call[p].args.regional_id IN
                  /\ DOMAIN regionals' = DOMAIN regionals
                  /\ id \in DOMAIN regionals
                  /\ regionals'[id] = TrimmedName(p)
                  /\ \A j \in DOMAIN regionals \ {id} :
                         regionals'[j] = regionals[j]
                  /\ result'[p].payload = id
                  /\ cars' = cars /\ users' = users]_vars

\* With a regional stored, an update of an id that is not stored, carrying
\* an empty name, was answered NOT_FOUND.
C24_Witness ==
    \E p \in Procs :
        /\ Done(p, "UpdateRegional")
        /\ call[p].args.regional_id \notin DOMAIN regionals
        /\ call[p].args.name = <<>>
        /\ result[p].error_code = "NOT_FOUND"
        /\ regionals # <<>>

\* C25: GetRegional and DeleteRegional answer INVALID_INPUT for an id below 1
\* without looking anything up; for an id of 1 or more they answer NOT_FOUND
\* exactly when no regional with that id is stored; otherwise GetRegional
\* succeeds with that regional, and DeleteRegional succeeds with the
\* regional removed unless a storage fault ends it in DATABASE_ERROR.
C25_GetDeleteRegionalById ==
    /\ [][\A p \in Procs :
              /\ Begins(p, "GetRegional") \/ Begins(p, "DeleteRegional") =>
                     LET id == call'[p].args.regional_id IN
                     IF id < 1
                     THEN /\ pc'[p] = "done" /\ ~result'[p].success
                          /\ result'[p].error_code = "INVALID_INPUT"
                          /\ loc'[p] = NoLoc
                     ELSE (pc'[p] = "done" /\ result'[p].error_code = "NOT_FOUND")
                          <=> id \notin DOMAIN regionals
              /\ Begins(p, "GetRegional") /\ pc'[p] = "done"
                 /\ result'[p].error_code = "none" =>
                     LET id == call'[p].args.regional_id IN
                     /\ result'[p].success
                     /\ id \in DOMAIN regionals
                     /\ loc'[p].regional = [name |-> regionals[id], id |-> id]]_vars
    /\ [](\A p \in Procs :
              Done(p, "DeleteRegional") /\ "regional" \in DOMAIN loc[p] =>
                  \/ result[p].error_code = "DATABASE_ERROR"
                  \/ /\ result[p].success
                     /\ call[p].args.regional_id \notin DOMAIN regionals)

\* A call on a regional that has passed the use case's find_by_id and has
\* not yet ended.
RegionalInFlight(p, id) ==
    /\ pc[p] \in {"dr_get", "dr_delete", "ur_get", "ur_save"}
    /\ loc[p].regional.id = id

\* C26: when a DeleteRegional has succeeded while another DeleteRegional or
\* an UpdateRegional of the same regional was past its find_by_id and had
\* not yet persisted, that other call ends in a failed Result, NOT_FOUND or
\* DATABASE_ERROR, and raises nothing: of the two, one succeeds.
C26_ConcurrentRegionalDelete ==
    [][\A p \in Procs : \A q \in Procs \ {p} :
           /\ Done(p, "DeleteRegional") /\ result[p].success
           /\ RegionalInFlight(q, call[p].args.regional_id)
           /\ pc'[q] = "done"
           => /\ ~result'[q].raised
              /\ ~result'[q].success
              /\ result'[q].error_code \in {"NOT_FOUND", "DATABASE_ERROR"}]_vars

\* C27: no two stored regionals ever have the same name, whatever the
\* interleaving of the calls; an UpdateRegional whose new name is held by
\* another regional when it saves ends in a failed Result, raises nothing
\* and leaves every regional as it was.
C27_RegionalNameUnique ==
    /\ [](\A i \in DOMAIN regionals : \A j \in DOMAIN regionals :
              regionals[i] = regionals[j] => i = j)
    /\ [][\A p \in Procs :
              /\ At(p, "UpdateRegional", "ur_save") /\ pc'[p] = "done"
              /\ \E j \in DOMAIN regionals \ {loc[p].regional.id} :
                     regionals[j] = loc[p].regional.name
              => /\ ~result'[p].success /\ ~result'[p].raised
                 /\ regionals' = regionals]_vars

\* An update of a stored regional to the name of another stored regional
\* ended in DATABASE_ERROR.
C27_Witness ==
    \E p \in Procs :
        /\ Done(p, "UpdateRegional")
        /\ result[p].error_code = "DATABASE_ERROR"
        /\ call[p].args.regional_id \in DOMAIN regionals
        /\ \E j \in DOMAIN regionals \ {call[p].args.regional_id} :
               regionals[j] = TrimmedName(p)

\* C28: a DeleteRegional of a stored regional, with the requests one at a
\* time and the storage answering, ends in success and removes that
\* regional and exactly the cars whose regional_id is its id; every other
\* regional and every other car stays as it was, and no other step of the
\* call writes anything.
C28_DeleteRegionalCascade ==
    [][\A p \in Procs :
           Steps(p, "DeleteRegional") =>
               LET id == call'[p].args.regional_id IN
               IF pc'[p] = "done" /\ id \in DOMAIN regionals
               THEN /\ result'[p].success
                    /\ DOMAIN regionals' = DOMAIN regionals \ {id}
                    /\ \A j \in DOMAIN regionals' : regionals'[j] = regionals[j]
                    /\ DOMAIN cars' =
                           {i \in DOMAIN cars : cars[i].regional_id # id}
                    /\ \A i \in DOMAIN cars' : cars'[i] = cars[i]
                    /\ users' = users
               ELSE db' = db]_vars

\* The third request deleted the regional that the one car stored by the
\* second request referenced, and the car went with it.
C28_Witness ==
    \E p \in Procs :
        /\ Done(p, "DeleteRegional")
        /\ result[p].success
        /\ calls = 3 /\ nextCarId = 2
        /\ cars = <<>>

\* The stored car carries every value the kwargs name.
Carries(car_id, kwargs) ==
    /\ car_id \in DOMAIN cars
    /\ \A k \in KwargsKeys(kwargs) : cars[car_id][k] = kwargs.values[k]

\* C29: no lost update. When an UpdateCar has returned and its change is
\* stored, and a second UpdateCar of the same car naming other fields then
\* saves and returns, the stored car carries the changes of both.
C29_NoLostUpdate ==
    [][\A p \in Procs : \A q \in Procs \ {p} :
           /\ Done(p, "UpdateCar") /\ result[p].success
           /\ At(q, "UpdateCar", "uc_update_save")
           /\ call[q].args.car_id = call[p].args.car_id
           /\ KwargsKeys(call[p].args.fields)
                  \cap KwargsKeys(call[q].args.fields) = {}
           /\ Carries(call[p].args.car_id, call[p].args.fields)
           /\ pc'[q] = "done" /\ result'[q].success
           => /\ Carries(call[p].args.car_id, call[p].args.fields)'
              /\ Carries(call[q].args.car_id, call[q].args.fields)']_vars

\* The plate number is that of a stored car.
PlateTaken(plate) == \E i \in DOMAIN cars : cars[i].plate_number = plate

\* C30: a CreateCar call ends with the first failing check in the order
\* regional exists, plate number free, entity valid: 'Regional not found'
\* for a regional_id that is not stored, whatever the plate number and the
\* other fields; then 'already exists' for a taken plate number; then the
\* entity's validation error; a call that fails has never reached the
\* repository's save and has stored nothing.
C30_CreateCarCheckOrder ==
    [][\A p \in Procs :
           Steps(p, "CreateCar") /\ pc'[p] = "done" =>
               LET a == call'[p].args IN
               /\ IF a.regional_id \notin DOMAIN regionals
                  THEN result'[p] = RegionalNotFound
                  ELSE IF PlateTaken(a.plate_number)
                  THEN result'[p] = PlateExists
                  ELSE IF ValidateAll(Car(a, 0)) # "OK"
                  THEN result'[p] = DomainValidationError(ValidateAll(Car(a, 0)))
                  ELSE result'[p].success
               /\ ~result'[p].success =>
                      /\ "car" \notin DOMAIN loc'[p]
                      /\ db' = db /\ nextCarId' = nextCarId]_vars

\* A call naming a regional that is not stored, the plate number of a
\* stored car and a name that is too short ended in 'Regional not found'.
C30_Witness ==
    \E p \in Procs :
        /\ Done(p, "CreateCar")
        /\ call[p].args.regional_id \notin DOMAIN regionals
        /\ PlateTaken(call[p].args.plate_number)
        /\ ValidateAll(Car(call[p].args, 0)) # "OK"
        /\ result[p] = RegionalNotFound

====
